---- MODULE Spec2Model ----
(***************************************************************************)
(* Model of boty.py: a Telegram bot that collects captioned videos per     *)
(* user and bundles them into a zip archive on /zip.                       *)
(*                                                                         *)
(* Strings are sequences of one-character strings, so that formatting,     *)
(* filtering and concatenation are computed, not assumed.                  *)
(* Optional values are sequences of length 0 (None) or 1 (the value).      *)
(*                                                                         *)
(* A handler is one step up to each await whose result the claims depend   *)
(* on; handlers of different users interleave at these points, handlers of *)
(* one user do not (the dispatcher awaits a handler, and error_handler for *)
(* an exception it raised, before it takes the user's next update).        *)
(* Every Telegram call may raise; ZipFile() and zipf.write may raise;      *)
(* os.remove of an existing file succeeds.                                 *)
(***************************************************************************)
EXTENDS Integers, Sequences, FiniteSets, TLC

VARIABLES
    has_videos,     \* users u with 'videos' in context.user_data
    videos,         \* context.user_data['videos'] of each user (<<>> when absent)
    files,          \* TEMP_DIR: function from the existing paths to their content
    pc,             \* position of the update being processed for each user
    error,          \* context.error: where the unhandled exception was raised
    event,          \* history: the callback that ran last and its outcome
    captions,       \* history: the captions the records of videos were made from
    zip_filename,   \* create_zip's local zip_filename (None outside create_zip)
    description,    \* sanitizer study: the caption given
    sanitized_name  \* sanitizer study: <<>> before, <<name>> after sanitizing

vars == <<has_videos, videos, files, pc, error, event, captions, zip_filename,
          description, sanitized_name>>

-----------------------------------------------------------------------------
(* Bounds *)

MaxLen == 4        \* longest caption of the sanitizer study
MaxVideos == 2     \* most records pending at once, over all sessions

-----------------------------------------------------------------------------
(* Characters *)

AsciiLetters == {"a", "Z"}
AsciiDigits == {"7"}
UnicodeAlnum == {"eacute"}     \* a non-ASCII letter, for which str.isalnum() is True
Punctuation == {"!"}
Alphabet == AsciiLetters \cup AsciiDigits \cup UnicodeAlnum \cup Punctuation
                \cup {" ", "-", "_"}

RECURSIVE SeqsUpTo(_, _)
SeqsUpTo(S, n) ==
    IF n = 0 THEN {<<>>}
    ELSE LET shorter == SeqsUpTo(S, n - 1)
         IN  shorter \cup {Append(s, c) : s \in {t \in shorter : Len(t) = n - 1}, c \in S}

-----------------------------------------------------------------------------
(* Filename sanitizer, boty.py lines 55-57 *)

isalnum(c) == c \in AsciiLetters \cup AsciiDigits \cup UnicodeAlnum

\* faulty variants of keep: the hyphen forgotten; no filtering at all
keep_no_hyphen(c) == isalnum(c) \/ c \in {" ", "_"}

keep_all(c) == TRUE

keep(c) == isalnum(c) \/ c \in {" ", "-", "_"}

\* str.strip(): of the characters keep lets through only the space is whitespace
Whitespace == {" "}

RECURSIVE lstrip(_)
lstrip(s) == IF s # <<>> /\ Head(s) \in Whitespace THEN lstrip(Tail(s)) ELSE s

RECURSIVE rstrip(_)
rstrip(s) ==
    IF s # <<>> /\ s[Len(s)] \in Whitespace THEN rstrip(SubSeq(s, 1, Len(s) - 1)) ELSE s

strip(s) == rstrip(lstrip(s))

replace_spaces(s) == [i \in 1..Len(s) |-> IF s[i] = " " THEN "_" ELSE s[i]]

Ext == <<".", "m", "p", "4">>

sanitize(caption) == replace_spaces(strip(SelectSeq(caption, keep))) \o Ext

-----------------------------------------------------------------------------
(* Identifiers and paths, boty.py lines 20, 61, 85, 127 *)

Users == {7, 71}                         \* update.effective_user.id

FileIds == {<<"A">>, <<"1", "A">>}  \* video_file.file_unique_id

DigitChars == <<"0", "1", "2", "3", "4", "5", "6", "7", "8", "9">>

RECURSIVE str(_)
str(n) == IF n < 10 THEN <<DigitChars[n + 1]>>
          ELSE str(n \div 10) \o <<DigitChars[(n % 10) + 1]>>

TEMP_DIR == <<"video_bot_">>

os_path_join(dir, name) == dir \o <<"/">> \o name

\* faulty variant of temp_video_path: the user id left out of the name
temp_video_path_no_uid(uid, fuid) ==
    os_path_join(TEMP_DIR, <<"t", "e", "m", "p", "_">> \o fuid \o Ext)

temp_video_path(uid, fuid) ==
    os_path_join(TEMP_DIR, <<"t", "e", "m", "p", "_">> \o str(uid) \o <<"_">> \o fuid \o Ext)

\* faulty variant of zip_path: one archive path for all users
zip_path_no_uid(uid) ==
    os_path_join(TEMP_DIR, <<"v", "i", "d", "e", "o", "s", ".", "z", "i", "p">>)

zip_path(uid) ==
    os_path_join(TEMP_DIR, <<"v", "i", "d", "e", "o", "s", "_">> \o str(uid)
                               \o <<".", "z", "i", "p">>)

-----------------------------------------------------------------------------
(* The temporary workspace *)

EmptyDir == [p \in {} |-> {}]

exists(fs, p) == p \in DOMAIN fs

write_file(fs, p, content) == [q \in DOMAIN fs \cup {p} |-> IF q = p THEN content ELSE fs[q]]

os_remove(fs, p) == [q \in DOMAIN fs \ {p} |-> fs[q]]

\* Content of a downloaded file and of an archive; "by" is history: the user whose
\* handler wrote the file last.
Video(u, fuid) == [data |-> fuid, complete |-> TRUE, by |-> u]

Truncated(u, fuid) == [data |-> fuid, complete |-> FALSE, by |-> u]

Archive(u, entries) == [entries |-> entries, by |-> u]

(* cleanup_files, boty.py lines 107-120 *)

RECURSIVE remove_videos(_, _)
remove_videos(vs, fs) ==
    IF vs = <<>> THEN fs
    ELSE remove_videos(Tail(vs),
                       IF exists(fs, Head(vs).path) THEN os_remove(fs, Head(vs).path) ELSE fs)

\* faulty variant of cleanup_files: the archive is not removed
cleanup_files_keep_zip(vs, zp, fs) == remove_videos(vs, fs)

cleanup_files(vs, zp, fs) ==
    LET after == remove_videos(vs, fs)
    IN  IF exists(after, zp) THEN os_remove(after, zp) ELSE after

-----------------------------------------------------------------------------
(* Updates *)

None == <<>>

Some(x) == <<x>>

Message(att, caption) == [att |-> att, caption |-> caption]

\* The updates the handlers are tried on: three that handle_video refuses, and
\* three it accepts (two attachments; two captions with one sanitized name; one
\* caption with nothing to keep).
Messages ==
    { Message(None, Some(<<"a", " ", "Z">>)),
      Message(Some(<<"A">>), None),
      Message(Some(<<"A">>), Some(<<>>)),
      Message(Some(<<"A">>), Some(<<"a", " ", "Z">>)),
      Message(Some(<<"1", "A">>), Some(<<"a", "_", "Z">>)),
      Message(Some(<<"A">>), Some(<<"!">>)) }

\* "not description": the caption is None or the empty string
no_description(msg) == msg.caption = None \/ msg.caption[1] = <<>>

RECURSIVE TotalLen(_, _)
TotalLen(vids, us) ==
    IF us = {} THEN 0
    ELSE LET u == CHOOSE x \in us : TRUE
         IN  Len(vids[u]) + TotalLen(vids, us \ {u})

Pending == TotalLen(videos, Users)

\* n is the running total a confirmation reply reports (0: the reply has none)
Event(u, h, o) == [u |-> u, h |-> h, o |-> o, n |-> 0]

Confirmation(u, total) == [u |-> u, h |-> "handle_video", o |-> "saved", n |-> total]

Raise(u, origin) == pc' = [pc EXCEPT ![u] = "error"] /\ error' = [error EXCEPT ![u] = origin]

Return(u) == pc' = [pc EXCEPT ![u] = "idle"] /\ UNCHANGED error

-----------------------------------------------------------------------------
(* State *)

Init ==
    /\ has_videos = {}
    /\ videos = [u \in Users |-> <<>>]
    /\ files = EmptyDir
    /\ pc = [u \in Users |-> "idle"]
    /\ error = [u \in Users |-> "none"]
    /\ event = Event(0, "init", "none")
    /\ captions = [u \in Users |-> <<>>]
    /\ zip_filename = [u \in Users |-> None]
    /\ description = <<>>
    /\ sanitized_name = None

(* start, boty.py lines 23-34 *)
Start(u, reply_ok) ==
    /\ pc[u] = "idle"
    /\ IF reply_ok
       THEN /\ has_videos' = has_videos \cup {u}
            /\ videos' = [videos EXCEPT ![u] = <<>>]
            /\ captions' = [captions EXCEPT ![u] = <<>>]
            /\ Return(u)
            /\ event' = Event(u, "start", "ok")
       ELSE /\ UNCHANGED <<has_videos, videos, captions>>
            /\ Raise(u, "start")
            /\ event' = Event(u, "start", "reply_failed")
    /\ UNCHANGED <<files, zip_filename, description, sanitized_name>>

(* handle_video, boty.py lines 36-74 *)
DownloadOutcomes ==
    {"ok", "get_file_failed", "download_failed", "download_truncated", "reply_failed"}

no_attachment(msg) == msg.att = None

\* faulty variant of rejects: "description is None" instead of "not description"
rejects_none_caption_only(msg) == no_attachment(msg) \/ msg.caption = None

rejects(msg) == no_attachment(msg) \/ no_description(msg)

\* faulty variant of append_record: the record is put in front
append_record_first(vs, path, name) == <<[path |-> path, name |-> name]>> \o vs

\* lines 65-68
append_record(vs, path, name) == Append(vs, [path |-> path, name |-> name])

\* line 72
reported_total(vs) == Len(vs)

HandleVideo(u, msg, outcome) ==
    /\ pc[u] = "idle"
    /\ has_videos' = has_videos \cup {u}
    /\ IF rejects(msg)
       THEN /\ outcome \in {"ok", "reply_failed"}
            /\ UNCHANGED <<videos, captions, files>>
            /\ IF outcome = "ok" THEN Return(u) ELSE Raise(u, "handle_video")
            /\ event' = Event(u, "handle_video",
                              IF outcome # "ok" THEN "warn_failed"
                              ELSE IF no_attachment(msg) THEN "no_attachment"
                              ELSE "no_description")
       ELSE LET name == sanitize(msg.caption[1])
                path == temp_video_path(u, msg.att[1])
            IN  /\ Pending < MaxVideos
                /\ event' = IF outcome = "ok"
                            THEN Confirmation(u, reported_total(
                                                    append_record(videos[u], path, name)))
                            ELSE Event(u, "handle_video", outcome)
                /\ CASE outcome \in {"get_file_failed", "download_failed"} ->
                          /\ UNCHANGED <<videos, captions, files>>
                          /\ Raise(u, "handle_video")
                     [] outcome = "download_truncated" ->
                          /\ files' = write_file(files, path, Truncated(u, msg.att[1]))
                          /\ UNCHANGED <<videos, captions>>
                          /\ Raise(u, "handle_video")
                     [] outcome \in {"ok", "reply_failed"} ->
                          /\ files' = write_file(files, path, Video(u, msg.att[1]))
                          /\ videos' = [videos EXCEPT ![u] = append_record(@, path, name)]
                          /\ captions' = [captions EXCEPT ![u] = Append(@, msg.caption[1])]
                          /\ IF outcome = "ok" THEN Return(u) ELSE Raise(u, "handle_video")
    /\ UNCHANGED <<zip_filename, description, sanitized_name>>

(* create_zip, boty.py lines 76-105 *)

no_videos(u) == u \notin has_videos \/ videos[u] = <<>>

\* The index of the first zipf.write that raises: the injected I/O failure or the
\* first source file that is missing, whichever comes first (Len + 1: none).
first_failure(vs, fs, fail_at) ==
    LET bad == {i \in 1..Len(vs) : i = fail_at \/ ~exists(fs, vs[i].path)}
    IN  IF bad = {} THEN Len(vs) + 1 ELSE CHOOSE i \in bad : \A j \in bad : i <= j

RECURSIVE first_of_each_name(_)
first_of_each_name(entries) ==
    IF entries = <<>> THEN <<>>
    ELSE LET before == first_of_each_name(SubSeq(entries, 1, Len(entries) - 1))
             e == entries[Len(entries)]
         IN  IF \E k \in 1..Len(before) : before[k].name = e.name THEN before
             ELSE Append(before, e)

\* faulty variant of zip_entries: a name already in the archive is skipped
zip_entries_deduplicated(vs, fs, n) ==
    first_of_each_name([i \in 1..n |-> [name |-> vs[i].name, content |-> fs[vs[i].path]]])

zip_entries(vs, fs, n) == [i \in 1..n |-> [name |-> vs[i].name, content |-> fs[vs[i].path]]]

\* faulty variant of create_zip_warn: the archive is opened before the emptiness test
create_zip_warn_after_open(u, reply_ok) ==
    /\ files' = write_file(files, zip_path(u), Archive(u, <<>>))
    /\ UNCHANGED <<has_videos, videos, captions, zip_filename>>
    /\ IF reply_ok THEN Return(u) ELSE Raise(u, "create_zip:warn")
    /\ event' = Event(u, "create_zip", IF reply_ok THEN "no_videos" ELSE "warn_failed")

create_zip_warn(u, reply_ok) ==
    /\ UNCHANGED <<has_videos, videos, captions, files, zip_filename>>
    /\ IF reply_ok THEN Return(u) ELSE Raise(u, "create_zip:warn")
    /\ event' = Event(u, "create_zip", IF reply_ok THEN "no_videos" ELSE "warn_failed")

\* os.path.splitext: the extension starts at the last dot of the last path
\* component, unless only dots precede that dot in the component
last_index(p, c) ==
    LET at == {i \in 1..Len(p) : p[i] = c}
    IN  IF at = {} THEN 0 ELSE CHOOSE i \in at : \A j \in at : j <= i

splitext_root(p) ==
    LET sep == last_index(p, "/")
        dot == last_index(p, ".")
    IN  IF dot > sep /\ \E i \in (sep + 1)..(dot - 1) : p[i] # "."
        THEN SubSeq(p, 1, dot - 1)
        ELSE p

\* lines 83-84
make_zip_filename(vs) == splitext_root(vs[1].name) \o <<".", "z", "i", "p">>

\* lines 83-90 and the except clause up to its await: fail_at = 0 is ZipFile()
\* raising, fail_at = k the k-th zipf.write raising
create_zip_build(u, fail_at) ==
    LET vs == videos[u]
        k == first_failure(vs, files, fail_at)
    IN  /\ UNCHANGED <<has_videos, videos, captions, error>>
        /\ zip_filename' = [zip_filename EXCEPT ![u] = Some(make_zip_filename(vs))]
        /\ IF fail_at = 0
           THEN /\ UNCHANGED files
                /\ pc' = [pc EXCEPT ![u] = "reporting_build_error"]
                /\ event' = Event(u, "create_zip", "open_failed")
           ELSE /\ files' = write_file(files, zip_path(u), Archive(u, zip_entries(vs, files, k - 1)))
                /\ pc' = [pc EXCEPT ![u] = IF k > Len(vs) THEN "sending"
                                           ELSE "reporting_build_error"]
                /\ event' = Event(u, "create_zip", IF k > Len(vs) THEN "built" ELSE "write_failed")

CreateZip(u, fail_at, reply_ok) ==
    /\ pc[u] = "idle"
    /\ IF no_videos(u)
       THEN fail_at = 0 /\ create_zip_warn(u, reply_ok)
       ELSE reply_ok /\ fail_at \in 0..(Len(videos[u]) + 1) /\ create_zip_build(u, fail_at)
    /\ UNCHANGED <<description, sanitized_name>>

\* lines 99-100 and 104-105
create_zip_cleanup(u) ==
    /\ files' = cleanup_files(videos[u], zip_path(u), files)
    /\ videos' = [videos EXCEPT ![u] = <<>>]
    /\ captions' = [captions EXCEPT ![u] = <<>>]

\* lines 93-100: reply_document, then cleanup
SendZip(u, send_ok) ==
    /\ pc[u] = "sending"
    /\ IF send_ok
       THEN /\ create_zip_cleanup(u)
            /\ Return(u)
            /\ zip_filename' = [zip_filename EXCEPT ![u] = None]
            /\ event' = Event(u, "create_zip", "sent")
       ELSE /\ UNCHANGED <<videos, captions, files, error, zip_filename>>
            /\ pc' = [pc EXCEPT ![u] = "reporting_send_error"]
            /\ event' = Event(u, "create_zip", "send_failed")
    /\ UNCHANGED <<has_videos, description, sanitized_name>>

\* faulty variant of except_cleanup: the except clause only reports
except_skips_cleanup(u) ==
    /\ UNCHANGED <<videos, captions, files>>
    /\ Return(u)

except_cleanup(u) ==
    /\ create_zip_cleanup(u)
    /\ Return(u)

\* lines 102-105: reply_text with the error, then cleanup
ReportZipError(u, reply_ok) ==
    /\ pc[u] \in {"reporting_build_error", "reporting_send_error"}
    /\ IF reply_ok
       THEN /\ except_cleanup(u)
            /\ event' = Event(u, "create_zip",
                              IF pc[u] = "reporting_build_error" THEN "build_error_reported"
                              ELSE "send_error_reported")
       ELSE /\ UNCHANGED <<videos, captions, files>>
            /\ Raise(u, IF pc[u] = "reporting_build_error" THEN "create_zip:build"
                        ELSE "create_zip:send")
            /\ event' = Event(u, "create_zip", "report_failed")
    /\ zip_filename' = [zip_filename EXCEPT ![u] = None]
    /\ UNCHANGED <<has_videos, description, sanitized_name>>

(* error_handler, boty.py lines 122-129 *)
\* faulty variant of error_handler_cleanup: the handler only logs
error_handler_no_cleanup(u) ==
    /\ UNCHANGED <<videos, captions, files>>

error_handler_cleanup(u) ==
    IF u \in has_videos
    THEN /\ files' = cleanup_files(videos[u], zip_path(u), files)
         /\ videos' = [videos EXCEPT ![u] = <<>>]
         /\ captions' = [captions EXCEPT ![u] = <<>>]
    ELSE UNCHANGED <<videos, captions, files>>

ErrorHandler(u) ==
    /\ pc[u] = "error"
    /\ error_handler_cleanup(u)
    /\ pc' = [pc EXCEPT ![u] = "idle"]
    /\ error' = [error EXCEPT ![u] = "none"]
    /\ event' = Event(u, "error_handler", error[u])
    /\ UNCHANGED <<has_videos, zip_filename, description, sanitized_name>>

Next ==
    \/ \E u \in Users, reply_ok \in BOOLEAN : Start(u, reply_ok)
    \/ \E u \in Users, msg \in Messages, outcome \in DownloadOutcomes : HandleVideo(u, msg, outcome)
    \/ \E u \in Users, fail_at \in 0..(MaxVideos + 1), reply_ok \in BOOLEAN :
          CreateZip(u, fail_at, reply_ok)
    \/ \E u \in Users, send_ok \in BOOLEAN : SendZip(u, send_ok)
    \/ \E u \in Users, reply_ok \in BOOLEAN : ReportZipError(u, reply_ok)
    \/ \E u \in Users : ErrorHandler(u)

Spec == Init /\ [][Next]_vars

-----------------------------------------------------------------------------
(* The sanitizer alone, on every caption up to MaxLen characters *)

InitSan ==
    /\ has_videos = {}
    /\ videos = [u \in Users |-> <<>>]
    /\ files = EmptyDir
    /\ pc = [u \in Users |-> "idle"]
    /\ error = [u \in Users |-> "none"]
    /\ event = Event(0, "init", "none")
    /\ captions = [u \in Users |-> <<>>]
    /\ zip_filename = [u \in Users |-> None]
    /\ description \in SeqsUpTo(Alphabet, MaxLen)
    /\ sanitized_name = None

Sanitize ==
    /\ sanitized_name = None
    /\ sanitized_name' = Some(sanitize(description))
    /\ UNCHANGED <<has_videos, videos, files, pc, error, event, captions, zip_filename,
                   description>>

NextSan == Sanitize

SpecSan == InitSan /\ [][NextSan]_vars

-----------------------------------------------------------------------------
(* Vocabulary of the properties *)

\* the update of u that create_zip took with a non-empty collection is still being
\* processed (by create_zip itself or by the error handler it fell through to)
InCreateZip(u) ==
    \/ pc[u] \in {"sending", "reporting_build_error", "reporting_send_error"}
    \/ pc[u] = "error" /\ error[u] \in {"create_zip:build", "create_zip:send"}

\* the archive of u was written completely and the update is still being processed
AfterArchiveWritten(u) ==
    \/ pc[u] \in {"sending", "reporting_send_error"}
    \/ pc[u] = "error" /\ error[u] = "create_zip:send"

ReferencedPaths(u) == {videos[u][i].path : i \in 1..Len(videos[u])}

\* in the next state, u's collection is empty and the files it referenced and u's
\* archive are gone
CleanedUp(u) ==
    /\ videos'[u] = <<>>
    /\ \A p \in ReferencedPaths(u) : ~exists(files', p)
    /\ ~exists(files', zip_path(u))

IsAppend(before, after) ==
    /\ Len(after) = Len(before) + 1
    /\ SubSeq(after, 1, Len(before)) = before

-----------------------------------------------------------------------------
(* C1: whenever the processing of a /zip update that found a non-empty         *)
(* collection ends (archive built and sent, construction or sending raised and *)
(* reported, or the report raised too and the error handler ran), the user's   *)
(* collection is empty and neither a file it referenced nor videos_<uid>.zip   *)
(* exists.                                                                     *)
C1_ZipAlwaysCleansUp ==
    [][\A u \in Users : (InCreateZip(u) /\ pc'[u] = "idle") => CleanedUp(u)]_vars

\* a /zip whose archive construction raised has finished, while the other user
\* still has a pending file
C1_Witness ==
    \E u \in Users :
        /\ event = Event(u, "create_zip", "build_error_reported")
        /\ pc[u] = "idle" /\ videos[u] = <<>>
        /\ \E v \in Users \ {u} : videos[v] # <<>>

(* C2: once the archive has been written, the collection is cleared and the    *)
(* source files and the archive are deleted whether reply_document succeeds,   *)
(* fails, or fails and the error reply fails as well.                          *)
C2_CleanupRegardlessOfSend ==
    [][\A u \in Users : (AfterArchiveWritten(u) /\ pc'[u] = "idle") => CleanedUp(u)]_vars

\* sending failed, the error reply failed, the error handler has run
C2_Witness ==
    \E u \in Users :
        /\ event = Event(u, "error_handler", "create_zip:send")
        /\ pc[u] = "idle" /\ videos[u] = <<>> /\ ~exists(files, zip_path(u))

(* C3: a user's collection changes only by handle_video appending one record   *)
(* and by create_zip or error_handler emptying a non-empty collection; no      *)
(* other handler, /start in particular, changes a non-empty collection.        *)
C3_OnlyAppendAndClear ==
    [][\A u \in Users :
          videos'[u] # videos[u] =>
             /\ event'.u = u
             /\ \/ event'.h = "handle_video" /\ IsAppend(videos[u], videos'[u])
                \/ /\ event'.h \in {"create_zip", "error_handler"}
                   /\ videos[u] # <<>> /\ videos'[u] = <<>>]_vars

\* the files a session of u can own: its downloads and its archive
SessionPaths(u) == {temp_video_path(u, f) : f \in FileIds} \cup {zip_path(u)}

Distinct(seq) == \A i, j \in 1..Len(seq) : i # j => seq[i] # seq[j]

(* C4: when N videos with pairwise distinct captions were ingested into an     *)
(* empty collection and create_zip has written the archive, the archive holds  *)
(* exactly N entries, the i-th named by the sanitized i-th caption; and when   *)
(* that archive has been delivered the collection is empty and no file of the  *)
(* session (download or archive) is left in the workspace.                     *)
C4_ArchiveOfAllThenNothingLeft ==
    /\ [](\A u \in Users :
            (pc[u] = "sending" /\ Distinct(captions[u])) =>
               LET a == files[zip_path(u)].entries
               IN  /\ Len(a) = Len(captions[u])
                   /\ \A i \in 1..Len(a) : a[i].name = sanitize(captions[u][i]))
    /\ [][\A u \in Users :
            (pc[u] = "sending" /\ Distinct(captions[u]) /\ event' = Event(u, "create_zip", "sent")) =>
               /\ videos'[u] = <<>>
               /\ \A p \in SessionPaths(u) : ~exists(files', p)]_vars

(* C5: from the state an unhandled exception leaves, the update of that user   *)
(* proceeds only by error_handler, after which the user's collection is empty, *)
(* the files it referenced and videos_<uid>.zip do not exist, the user's       *)
(* session accepts updates again and no other session's position has moved.    *)
C5_ErrorHandlerCleansUp ==
    [][\A u \in Users :
          (pc[u] = "error" /\ pc'[u] # "error") =>
             /\ event' = Event(u, "error_handler", error[u])
             /\ CleanedUp(u)
             /\ pc'[u] = "idle"
             /\ \A v \in Users \ {u} : pc'[v] = pc[v]]_vars

\* error_handler has run for a /zip whose construction and whose error reply
\* both raised, and another session is in the middle of its own /zip
C5_Witness ==
    \E u \in Users :
        /\ event = Event(u, "error_handler", "create_zip:build")
        /\ pc[u] = "idle" /\ videos[u] = <<>> /\ ~exists(files, zip_path(u))
        /\ \E v \in Users \ {u} : pc[v] = "sending"

(* C6: the download path and the archive path of one user never equal a path   *)
(* of another user, distinct (user, attachment) pairs have distinct download   *)
(* paths, and in every reachable state of interleaved sessions each file a     *)
(* collection references, and each archive, was last written by its own user.  *)
PathsInjective ==
    /\ \A u, v \in Users : \A f, g \in FileIds :
          (u # v \/ f # g) => temp_video_path(u, f) # temp_video_path(v, g)
    /\ \A u, v \in Users : \A f \in FileIds : temp_video_path(u, f) # zip_path(v)
    /\ \A u, v \in Users : u # v => zip_path(u) # zip_path(v)

C6_DisjointPaths ==
    /\ PathsInjective
    /\ \A u \in Users :
          /\ \A p \in ReferencedPaths(u) : exists(files, p) => files[p].by = u
          /\ exists(files, zip_path(u)) => files[zip_path(u)].by = u
          /\ \A v \in Users \ {u} :
                ReferencedPaths(u) \cap (ReferencedPaths(v) \cup {zip_path(v)}) = {}

\* both users hold a record of the same attachment while one archive is on disk
C6_Witness ==
    \E u \in Users : \E v \in Users \ {u} :
        /\ videos[u] # <<>> /\ videos[v] # <<>>
        /\ files[videos[u][1].path].data = files[videos[v][1].path].data
        /\ pc[u] = "sending" /\ exists(files, zip_path(u))

(* C7: a create_zip invocation that finds the collection empty or absent only  *)
(* replies with the warning: the workspace, every collection and the set of    *)
(* initialised sessions are unchanged.                                         *)
C7_EmptyZipTouchesNothing ==
    [][\A u \in Users :
          (pc[u] = "idle" /\ videos[u] = <<>> /\ event'.u = u /\ event'.h = "create_zip") =>
             /\ event'.o \in {"no_videos", "warn_failed"}
             /\ files' = files
             /\ videos' = videos
             /\ has_videos' = has_videos]_vars

\* /zip was answered with the warning for a session that was never initialised,
\* while the other session's files are on disk
C7_Witness ==
    \E u \in Users :
        /\ event = Event(u, "create_zip", "no_videos")
        /\ u \notin has_videos /\ videos[u] = <<>>
        /\ files # EmptyDir

(* C8: a handle_video invocation on a message without attachment, or whose     *)
(* caption is missing or empty, leaves every collection and the workspace      *)
(* unchanged and only replies with a warning.                                  *)
InvalidMessages ==
    {msg \in Messages : msg.att = <<>> \/ msg.caption = <<>> \/ msg.caption = <<<<>>>>}

C8_RejectedVideoChangesNothing ==
    [][\A u \in Users :
          (pc[u] = "idle" /\ event'.u = u /\ event'.h = "handle_video") =>
             \A msg \in InvalidMessages : \A outcome \in DownloadOutcomes :
                HandleVideo(u, msg, outcome) =>
                   /\ videos' = videos
                   /\ files' = files
                   /\ event'.o \in {"no_attachment", "no_description", "warn_failed"}]_vars

\* a message without caption was refused and the records collected before remain
C8_Witness ==
    \E u \in Users :
        /\ event = Event(u, "handle_video", "no_description")
        /\ pc[u] = "idle" /\ Len(videos[u]) = MaxVideos
        /\ \A i \in 1..Len(videos[u]) : exists(files, videos[u][i].path)

-----------------------------------------------------------------------------
(* The sanitizer: what the properties expect, written without the model's     *)
(* operators                                                                   *)

PlainChars == {"a", "Z", "7", "eacute", " ", "-", "_"}   \* letters, digits, ' ', '-', '_'

AsciiPlainChars == {"a", "Z", "7", " ", "-", "_"}        \* [A-Za-z0-9 _-]

OnlyOf(s, chars) == \A i \in 1..Len(s) : s[i] \in chars

SpacesToUnderscores(s) == [i \in 1..Len(s) |-> IF s[i] = " " THEN "_" ELSE s[i]]

\* s without its leading and trailing spaces
Trimmed(s) ==
    LET inked == {i \in 1..Len(s) : s[i] # " "}
    IN  IF inked = {} THEN <<>>
        ELSE LET first == CHOOSE i \in inked : \A j \in inked : i <= j
                 last == CHOOSE i \in inked : \A j \in inked : j <= i
             IN  [i \in 1..(last - first + 1) |-> s[first + i - 1]]

MP4 == <<".", "m", "p", "4">>

EndsWithMP4(s) == Len(s) >= Len(MP4) /\ SubSeq(s, Len(s) - Len(MP4) + 1, Len(s)) = MP4

BeforeExtension(s) == SubSeq(s, 1, Len(s) - Len(MP4))

(* C9 as stated: for every caption of letters, digits, spaces, hyphens and     *)
(* underscores only, the sanitized name is the caption with every space        *)
(* replaced by an underscore, followed by '.mp4'.                              *)
C9_SpacesToUnderscoresOnly ==
    (sanitized_name # None /\ OnlyOf(description, PlainChars)) =>
        sanitized_name[1] = SpacesToUnderscores(description) \o MP4

(* C9 amended: for every such caption the sanitized name is the caption        *)
(* without its leading and trailing spaces, every remaining space replaced by  *)
(* an underscore, followed by '.mp4'.                                          *)
C9_TrimmedSpacesToUnderscores ==
    (sanitized_name # None /\ OnlyOf(description, PlainChars)) =>
        sanitized_name[1] = SpacesToUnderscores(Trimmed(description)) \o MP4

\* a plain caption with a leading space, an inner space and a hyphen was sanitized
C9_Witness ==
    /\ description = <<" ", "-", " ", "Z">>
    /\ OnlyOf(description, PlainChars)
    /\ sanitized_name = Some(<<"-", "_", "Z", ".", "m", "p", "4">>)

(* C10 as stated: for every caption the sanitized name ends with '.mp4' and    *)
(* the part before it has no character outside [A-Za-z0-9 _-].                 *)
C10_AsciiOnlyBeforeExtension ==
    sanitized_name # None =>
        /\ EndsWithMP4(sanitized_name[1])
        /\ OnlyOf(BeforeExtension(sanitized_name[1]), AsciiPlainChars)

(* C10 amended: for every caption the sanitized name ends with '.mp4' and the  *)
(* part before it has no character other than letters and digits of any        *)
(* script (str.isalnum), space, underscore and hyphen.                         *)
C10_PlainOnlyBeforeExtension ==
    sanitized_name # None =>
        /\ EndsWithMP4(sanitized_name[1])
        /\ OnlyOf(BeforeExtension(sanitized_name[1]), PlainChars)

\* a caption with punctuation and a non-ASCII letter was sanitized
C10_Witness ==
    /\ sanitized_name # None
    /\ \E i, j \in 1..Len(description) : description[i] = "!" /\ description[j] = "eacute"
    /\ \E i \in 1..Len(sanitized_name[1]) : sanitized_name[1][i] = "eacute"

-----------------------------------------------------------------------------
ZIP == <<".", "z", "i", "p">>

(* C11: whenever create_zip is about to deliver the archive, the filename it   *)
(* passes to reply_document is the first record's target name with '.mp4'      *)
(* removed, followed by '.zip'; also when that base name is empty.             *)
C11_ZipNamedAfterFirstRecord ==
    \A u \in Users :
        pc[u] = "sending" =>
            zip_filename[u] = Some(BeforeExtension(videos[u][1].name) \o ZIP)

ValidMessages == Messages \ InvalidMessages

(* C12: a handle_video invocation with an attachment and a non-empty caption   *)
(* whose download succeeds writes exactly one file (the download, at the       *)
(* user's path for that attachment; every other file is as before), appends    *)
(* exactly one record (that path, the sanitized caption) behind the unchanged  *)
(* earlier records, and its confirmation reports the new length.               *)
C12_IngestAppendsOneRecord ==
    [][\A u \in Users :
          (pc[u] = "idle" /\ event'.u = u /\ event'.h = "handle_video") =>
             \A msg \in ValidMessages : \A outcome \in {"ok", "reply_failed"} :
                HandleVideo(u, msg, outcome) =>
                   LET path == temp_video_path(u, msg.att[1])
                   IN  /\ DOMAIN files' = DOMAIN files \cup {path}
                       /\ \A q \in DOMAIN files \ {path} : files'[q] = files[q]
                       /\ files'[path].data = msg.att[1] /\ files'[path].complete
                       /\ Len(videos'[u]) = Len(videos[u]) + 1
                       /\ SubSeq(videos'[u], 1, Len(videos[u])) = videos[u]
                       /\ videos'[u][Len(videos'[u])] =
                             [path |-> path, name |-> sanitize(msg.caption[1])]
                       /\ outcome = "ok" =>
                             event'.o = "saved" /\ event'.n = Len(videos'[u])]_vars

\* a second video was saved behind a first one and the reply reported two
C12_Witness ==
    \E u \in Users :
        /\ event = Confirmation(u, 2)
        /\ Len(videos[u]) = 2 /\ videos[u][1].path # videos[u][2].path
        /\ \A i \in 1..2 : exists(files, videos[u][i].path)

\* what a reader of the archive finds under a name: the entry written last
EntryFound(entries, name) ==
    LET at == {i \in 1..Len(entries) : entries[i].name = name}
    IN  entries[CHOOSE i \in at : \A j \in at : j <= i]

(* C13: when two records of a collection have the same target name, the        *)
(* archive create_zip has written holds an entry for each of them under that   *)
(* name (one entry per record, in order), and the entry found under the name   *)
(* holds the content of the later record.                                      *)
C13_DuplicateNamesLastWins ==
    \A u \in Users :
        pc[u] = "sending" =>
            LET vs == videos[u]
                a == files[zip_path(u)].entries
            IN  \A i, j \in 1..Len(vs) :
                   (i < j /\ vs[i].name = vs[j].name) =>
                      /\ Len(a) = Len(vs)
                      /\ a[i].name = vs[i].name /\ a[i].content = files[vs[i].path]
                      /\ a[j].name = vs[j].name /\ a[j].content = files[vs[j].path]
                      /\ (\A k \in (j + 1)..Len(vs) : vs[k].name # vs[j].name) =>
                            EntryFound(a, vs[j].name).content = files[vs[j].path]

\* an archive was written from two records with one name and different content
C13_Witness ==
    \E u \in Users :
        /\ pc[u] = "sending" /\ Len(videos[u]) = 2
        /\ videos[u][1].name = videos[u][2].name
        /\ files[videos[u][1].path].data # files[videos[u][2].path].data
        /\ captions[u][1] # captions[u][2]

(* C14: in every state in which no handler is executing, every file in the     *)
(* workspace is referenced by a record of some user's collection.              *)
C14_NoOrphanedFiles ==
    (\A u \in Users : pc[u] = "idle") =>
        \A p \in DOMAIN files : \E u \in Users : p \in ReferencedPaths(u)

\* the files of b's session that b's collection or b's archive path names
OwnedPaths(b) == ReferencedPaths(b) \cup {zip_path(b)}

(* C15: a step of a handler (start, handle_video, create_zip, error_handler,   *)
(* their cleanup included) running for user a leaves every other user b's      *)
(* collection, its being initialised and its position unchanged, and neither   *)
(* creates, rewrites nor deletes a file that b's collection references or that *)
(* is b's archive path.                                                        *)
C15_SessionIsolation ==
    [][\A a \in Users :
          event'.u = a =>
             \A b \in Users \ {a} :
                /\ videos'[b] = videos[b]
                /\ (b \in has_videos') = (b \in has_videos)
                /\ pc'[b] = pc[b]
                /\ \A p \in OwnedPaths(b) :
                      /\ exists(files', p) = exists(files, p)
                      /\ exists(files, p) => files'[p] = files[p]]_vars

\* a's /zip has been delivered and cleaned up while b, holding a record of the
\* same attachment, is in the middle of its own /zip with its archive on disk
C15_Witness ==
    \E a \in Users : \E b \in Users \ {a} :
        /\ event = Event(a, "create_zip", "sent")
        /\ pc[b] = "sending" /\ exists(files, zip_path(b))
        /\ \A p \in ReferencedPaths(b) : exists(files, p)
        /\ \E f \in FileIds :
              /\ temp_video_path(b, f) \in ReferencedPaths(b)
              /\ ~exists(files, temp_video_path(a, f))

====
